---- MODULE Spec2Model ----
(***************************************************************************)
(* Model of the Nostr Daily News MCP server (src/src/index.ts, the version *)
(* with the persisted configuration, lines 318-1207).                      *)
(*                                                                         *)
(* A JavaScript object is a sequence of [k, v] entries in insertion order. *)
(* The configuration document on disk is the sequence of tokens            *)
(* JSON.stringify emits (separators and whitespace left out).              *)
(***************************************************************************)
EXTENDS Integers, Sequences, FiniteSets, Bags, TLC

VARIABLES
  phase,          \* "start" before `let CONFIG = loadConfig()` has run, then "running"
  CONFIG,         \* the global configuration object
  configFile,     \* the file at CONFIG_PATH: [exists, text]
  writeFailures,  \* how many writeFileSync calls have thrown so far
  fsLog,          \* what the last step did to CONFIG_PATH: "none", "ok", "failed"
  pending,        \* the bag of handlers suspended at their await
  out             \* the last value a handler returned to the transport

vars == <<phase, CONFIG, configFile, writeFailures, fsLog, pending, out>>

----------------------------------------------------------------------------
(* Bounds *)

MaxCustomLen == 2
MaxWriteFailures == 1
MaxTasks == 2

----------------------------------------------------------------------------
(* JavaScript objects *)

Keys(obj) == {obj[i].k : i \in DOMAIN obj}

HasOwn(obj, key) == key \in Keys(obj)

IndexOf(obj, key) == CHOOSE i \in DOMAIN obj : obj[i].k = key

GetOwn(obj, key) == obj[IndexOf(obj, key)].v

\* property names every plain object inherits from Object.prototype
ObjectPrototypeKeys == {"constructor"}

\* `obj[key]` in a boolean context, for an object whose own values are arrays
\* or non-empty strings: an own value, or an inherited member
Truthy(obj, key) == HasOwn(obj, key) \/ key \in ObjectPrototypeKeys

\* `obj[key] = value`: an existing key keeps its position, a new one goes last
Put(obj, key, value) ==
  IF HasOwn(obj, key)
    THEN [obj EXCEPT ![IndexOf(obj, key)].v = value]
    ELSE Append(obj, [k |-> key, v |-> value])

\* `delete obj[key]`: removes an own key, does nothing otherwise
Delete(obj, key) == SelectSeq(obj, LAMBDA e : e.k # key)

----------------------------------------------------------------------------
(* The configuration *)

DEFAULT_LIMIT == 10

DEFAULT_CONFIG ==
  [relays |-> << [k |-> "trending", v |-> <<"wss://algo.utxo.one">>],
                 [k |-> "news",     v |-> <<"wss://news.utxo.one">>],
                 [k |-> "custom",   v |-> <<>>] >>,
   rssFeeds |->
     [stackerNews |-> "https://stacker.news/rss",
      hackerNews |-> << [k |-> "newest",       v |-> "https://hnrss.org/newest"],
                        [k |-> "frontpage",    v |-> "https://hnrss.org/frontpage"],
                        [k |-> "bestComments", v |-> "https://hnrss.org/bestcomments"],
                        [k |-> "ask",          v |-> "https://hnrss.org/ask"],
                        [k |-> "show",         v |-> "https://hnrss.org/show"] >>,
      custom |-> <<>>]]

\* the value of CONFIG before loadConfig has run
Unloaded ==
  [relays |-> <<>>,
   rssFeeds |-> [stackerNews |-> "", hackerNews |-> <<>>, custom |-> <<>>]]

----------------------------------------------------------------------------
(* JSON.stringify and JSON.parse of a configuration *)

RECURSIVE Concat(_)
Concat(ss) == IF ss = <<>> THEN <<>> ELSE Head(ss) \o Concat(Tail(ss))

\* fault: the elements are written last to first
StringifyArrayReversed(a) ==
  <<"[">> \o [i \in DOMAIN a |-> a[Len(a) + 1 - i]] \o <<"]">>

StringifyArray(a) == <<"[">> \o a \o <<"]">>

StringifyObjectOfArrays(obj) ==
  <<"{">> \o Concat([i \in DOMAIN obj |-> <<obj[i].k>> \o StringifyArray(obj[i].v)])
          \o <<"}">>

StringifyObjectOfStrings(obj) ==
  <<"{">> \o Concat([i \in DOMAIN obj |-> <<obj[i].k, obj[i].v>>]) \o <<"}">>

JSON_stringify(config) ==
  <<"{", "relays">> \o StringifyObjectOfArrays(config.relays)
    \o <<"rssFeeds", "{", "stackerNews", config.rssFeeds.stackerNews, "hackerNews">>
    \o StringifyObjectOfStrings(config.rssFeeds.hackerNews)
    \o <<"custom">> \o StringifyObjectOfStrings(config.rssFeeds.custom)
    \o <<"}", "}">>

Punctuation == {"{", "}", "[", "]"}

Failed == [ok |-> FALSE, v |-> <<>>, next |-> 0]

At(toks, i) == IF i \in DOMAIN toks THEN toks[i] ELSE "<eof>"

\* the elements of an array, from the token after "[" up to the matching "]"
RECURSIVE ParseElements(_, _, _)
ParseElements(toks, i, acc) ==
  IF At(toks, i) = "]" THEN [ok |-> TRUE, v |-> acc, next |-> i + 1]
  ELSE IF At(toks, i) \in Punctuation \cup {"<eof>"} THEN Failed
  ELSE ParseElements(toks, i + 1, Append(acc, toks[i]))

ParseArray(toks, i) ==
  IF At(toks, i) = "[" THEN ParseElements(toks, i + 1, <<>>) ELSE Failed

\* the members of an object of arrays, from the token after "{" up to "}"
RECURSIVE ParseArrayMembers(_, _, _)
ParseArrayMembers(toks, i, acc) ==
  IF At(toks, i) = "}" THEN [ok |-> TRUE, v |-> acc, next |-> i + 1]
  ELSE IF At(toks, i) \in Punctuation \cup {"<eof>"} THEN Failed
  ELSE LET a == ParseArray(toks, i + 1)
       IN  IF a.ok THEN ParseArrayMembers(toks, a.next, Put(acc, toks[i], a.v))
                   ELSE Failed

ParseObjectOfArrays(toks, i) ==
  IF At(toks, i) = "{" THEN ParseArrayMembers(toks, i + 1, <<>>) ELSE Failed

\* the members of an object of strings, from the token after "{" up to "}"
RECURSIVE ParseStringMembers(_, _, _)
ParseStringMembers(toks, i, acc) ==
  IF At(toks, i) = "}" THEN [ok |-> TRUE, v |-> acc, next |-> i + 1]
  ELSE IF At(toks, i) \in Punctuation \cup {"<eof>"} THEN Failed
  ELSE IF At(toks, i + 1) \in Punctuation \cup {"<eof>"} THEN Failed
  ELSE ParseStringMembers(toks, i + 2, Put(acc, toks[i], toks[i + 1]))

ParseObjectOfStrings(toks, i) ==
  IF At(toks, i) = "{" THEN ParseStringMembers(toks, i + 1, <<>>) ELSE Failed

\* JSON.parse of a document laid out as the Config interface says;
\* ok = FALSE is the SyntaxError
JSON_parse(toks) ==
  IF At(toks, 1) # "{" \/ At(toks, 2) # "relays" THEN Failed
  ELSE LET r == ParseObjectOfArrays(toks, 3) IN
  IF ~r.ok THEN Failed
  ELSE IF At(toks, r.next) # "rssFeeds" \/ At(toks, r.next + 1) # "{"
          \/ At(toks, r.next + 2) # "stackerNews"
          \/ At(toks, r.next + 3) \in Punctuation \cup {"<eof>"}
          \/ At(toks, r.next + 4) # "hackerNews" THEN Failed
  ELSE LET h == ParseObjectOfStrings(toks, r.next + 5) IN
  IF ~h.ok \/ At(toks, h.next) # "custom" THEN Failed
  ELSE LET c == ParseObjectOfStrings(toks, h.next + 1) IN
  IF ~c.ok \/ At(toks, c.next) # "}" \/ At(toks, c.next + 1) # "}"
     \/ c.next + 1 # Len(toks) THEN Failed
  ELSE [ok |-> TRUE, next |-> c.next + 2,
        v |-> [relays |-> r.v,
               rssFeeds |-> [stackerNews |-> toks[r.next + 3],
                             hackerNews |-> h.v,
                             custom |-> c.v]]]

----------------------------------------------------------------------------
(* Inputs *)

GroupNames == {"trending", "news", "custom", "mygroup", "constructor"}

RelayUrls == {"wss://r1", "wss://r2"}

RelayLists == {<<>>, <<"wss://r1">>}

\* the (name, relays) arguments add-relay-group is called with
AddRelayGroupInputs ==
  ({"mygroup"} \X RelayLists)
    \cup ({"custom"} \X {<<"wss://r1">>, <<"wss://r2">>})
    \cup ({"trending"} \X {<<"wss://r1">>})

FeedNames == {"myfeed", "stackerNews", "hackerNews.ask"}

FeedUrls == {"https://f1/rss", "https://f2/rss"}

\* the (name, url) arguments add-rss-feed is called with
AddRssFeedInputs ==
  {<<"myfeed", "https://f1/rss">>, <<"stackerNews", "https://f2/rss">>}

ProbeErrors == {"Status code 404"}

Absent == [exists |-> FALSE, text |-> <<>>]

File(config) == [exists |-> TRUE, text |-> JSON_stringify(config)]

\* a file whose text is not JSON (a truncated document)
Corrupt == [exists |-> TRUE, text |-> <<"{", "relays">>]

\* a configuration an earlier run saved: one user group, one custom feed
SavedConfig ==
  [DEFAULT_CONFIG EXCEPT
     !.relays = Append(@, [k |-> "mygroup", v |-> <<"wss://r1">>]),
     !.rssFeeds.custom = <<[k |-> "myfeed", v |-> "https://f1/rss"]>>]

\* the bundled config.example.json
ExampleConfig ==
  [DEFAULT_CONFIG EXCEPT !.relays = Put(@, "custom", <<"wss://r1">>)]

ConfigFiles == {Absent, Corrupt, File(DEFAULT_CONFIG), File(SavedConfig)}

ExampleFiles == {Absent, Corrupt, File(ExampleConfig)}

----------------------------------------------------------------------------
(* Results *)

\* a handler suspended at its await, with the arguments it was called with
Task(op, name, url) == [op |-> op, name |-> name, url |-> url]

Result(op, name, relays, url, kind, text) ==
  [op |-> op, name |-> name, relays |-> relays, url |-> url,
   kind |-> kind, text |-> text]

RECURSIVE Join(_, _)
Join(strs, sep) ==
  IF strs = <<>> THEN ""
  ELSE IF Len(strs) = 1 THEN strs[1]
  ELSE strs[1] \o sep \o Join(Tail(strs), sep)

\* fault: the text is the message alone
handleToolErrorMessageOnly(message, errorPrefix) == message

handleToolError(message, errorPrefix) == errorPrefix \o ": " \o message

----------------------------------------------------------------------------
(* Persistence *)

\* fault: the snapshot written is the one taken before the handler's change
saveConfigBeforeChange(config, ok) ==
  /\ configFile' = IF ok THEN File(CONFIG) ELSE configFile
  /\ fsLog' = IF ok THEN "ok" ELSE "failed"
  /\ writeFailures' = IF ok THEN writeFailures ELSE writeFailures + 1

\* whether writeFileSync may succeed (TRUE) or throw (FALSE) now
WriteOutcomes == {ok \in BOOLEAN : ok \/ writeFailures < MaxWriteFailures}

\* fault: once a write has failed, later saves are skipped
saveConfigStopsAfterFailure(config, ok) ==
  /\ configFile' = IF ok /\ writeFailures = 0 THEN File(config) ELSE configFile
  /\ fsLog' = IF ok THEN "ok" ELSE "failed"
  /\ writeFailures' = IF ok THEN writeFailures ELSE writeFailures + 1

\* saveConfig: the whole document is rewritten; a failure is logged and
\* swallowed, and leaves the file as it was
saveConfig(config, ok) ==
  /\ configFile' = IF ok THEN File(config) ELSE configFile
  /\ fsLog' = IF ok THEN "ok" ELSE "failed"
  /\ writeFailures' = IF ok THEN writeFailures ELSE writeFailures + 1

noSave ==
  /\ fsLog' = "none"
  /\ UNCHANGED <<configFile, writeFailures>>

\* fault: the example file is looked at before the configuration file
loadConfigExampleFirst(example, ok) ==
  /\ phase = "start"
  /\ phase' = "running"
  /\ pending' = pending
  /\ LET parsed == JSON_parse(configFile.text)
         parsedExample == JSON_parse(example.text)
     IN
     IF example.exists /\ parsedExample.ok THEN
          /\ CONFIG' = parsedExample.v
          /\ saveConfig(parsedExample.v, ok)
          /\ out' = Result("loadConfig", "example", <<>>, "", "ok", "")
     ELSE IF ~example.exists /\ configFile.exists /\ parsed.ok THEN
          /\ CONFIG' = parsed.v
          /\ noSave
          /\ ok
          /\ out' = Result("loadConfig", "config", <<>>, "", "ok", "")
     ELSE IF ~configFile.exists /\ ~example.exists THEN
          /\ CONFIG' = DEFAULT_CONFIG
          /\ saveConfig(DEFAULT_CONFIG, ok)
          /\ out' = Result("loadConfig", "defaults", <<>>, "", "ok", "")
     ELSE
          /\ CONFIG' = DEFAULT_CONFIG
          /\ saveConfig(DEFAULT_CONFIG, ok)
          /\ out' = Result("loadConfig", "catch", <<>>, "", "ok", "")

\* fault: each file is parsed in a try of its own, so a corrupt configuration
\* file falls through to the example file
loadConfigCorruptFallsThrough(example, ok) ==
  /\ phase = "start"
  /\ phase' = "running"
  /\ pending' = pending
  /\ LET parsed == JSON_parse(configFile.text)
         parsedExample == JSON_parse(example.text)
     IN
     IF configFile.exists /\ parsed.ok THEN
          /\ CONFIG' = parsed.v
          /\ noSave
          /\ ok
          /\ out' = Result("loadConfig", "config", <<>>, "", "ok", "")
     ELSE IF example.exists /\ parsedExample.ok THEN
          /\ CONFIG' = parsedExample.v
          /\ saveConfig(parsedExample.v, ok)
          /\ out' = Result("loadConfig", "example", <<>>, "", "ok", "")
     ELSE
          /\ CONFIG' = DEFAULT_CONFIG
          /\ saveConfig(DEFAULT_CONFIG, ok)
          /\ out' = Result("loadConfig", "defaults", <<>>, "", "ok", "")

\* loadConfig, run once when the module is loaded
loadConfig(example, ok) ==
  /\ phase = "start"
  /\ phase' = "running"
  /\ pending' = pending
  /\ LET parsed == JSON_parse(configFile.text)
         parsedExample == JSON_parse(example.text)
     IN
     IF configFile.exists /\ parsed.ok THEN
          /\ CONFIG' = parsed.v
          /\ noSave
          /\ ok
          /\ out' = Result("loadConfig", "config", <<>>, "", "ok", "")
     ELSE IF ~configFile.exists /\ example.exists /\ parsedExample.ok THEN
          /\ CONFIG' = parsedExample.v
          /\ saveConfig(parsedExample.v, ok)
          /\ out' = Result("loadConfig", "example", <<>>, "", "ok", "")
     ELSE IF ~configFile.exists /\ ~example.exists THEN
          /\ CONFIG' = DEFAULT_CONFIG
          /\ saveConfig(DEFAULT_CONFIG, ok)
          /\ out' = Result("loadConfig", "defaults", <<>>, "", "ok", "")
     ELSE \* the catch block: reading or parsing threw
          /\ CONFIG' = DEFAULT_CONFIG
          /\ saveConfig(DEFAULT_CONFIG, ok)
          /\ out' = Result("loadConfig", "catch", <<>>, "", "ok", "")

----------------------------------------------------------------------------
(* Configuration tools *)

\* fault: 'custom' is replaced like any other group
AddedRelaysReplaceCustom(groups, name, relays) == Put(groups, name, relays)

\* CONFIG.relays after the assignment add-relay-group makes
AddedRelays(groups, name, relays) ==
  IF name = "custom"
    THEN Put(groups, "custom", GetOwn(groups, "custom") \o relays)
    ELSE Put(groups, name, relays)

\* fault: the handler waits for the invocations suspended before it
AddRelayGroupWaitsForPending(name, relays, ok) ==
  /\ phase = "running"
  /\ pending = EmptyBag
  /\ name = "custom" => Len(GetOwn(CONFIG.relays, "custom")) + Len(relays) <= MaxCustomLen
  /\ CONFIG' = [CONFIG EXCEPT !.relays = AddedRelays(@, name, relays)]
  /\ saveConfig(CONFIG', ok)
  /\ out' = Result("add-relay-group", name, relays, "", "ok",
                   "Relay group '" \o name \o "' has been added/updated with "
                     \o ToString(Len(relays)) \o " relays.")
  /\ UNCHANGED <<phase, pending>>

\* add-relay-group
AddRelayGroup(name, relays, ok) ==
  /\ phase = "running"
  /\ name = "custom" => Len(GetOwn(CONFIG.relays, "custom")) + Len(relays) <= MaxCustomLen
  /\ CONFIG' = [CONFIG EXCEPT !.relays = AddedRelays(@, name, relays)]
  /\ saveConfig(CONFIG', ok)
  /\ out' = Result("add-relay-group", name, relays, "", "ok",
                   "Relay group '" \o name \o "' has been added/updated with "
                     \o ToString(Len(relays)) \o " relays.")
  /\ UNCHANGED <<phase, pending>>

\* fault: only 'trending' is protected
IsBuiltinRelayGroupTrendingOnly(name) == name = "trending"

\* fault: only 'news' is protected
IsBuiltinRelayGroupNewsOnly(name) == name = "news"

\* the groups remove-relay-group refuses to touch
IsBuiltinRelayGroup(name) == name = "trending" \/ name = "news"

\* fault: 'custom' is deleted like any other group
RemovedRelaysDeleteCustom(groups, name) == Delete(groups, name)

\* CONFIG.relays after the change remove-relay-group makes
RemovedRelays(groups, name) ==
  IF name = "custom" THEN Put(groups, "custom", <<>>) ELSE Delete(groups, name)

\* remove-relay-group
RemoveRelayGroup(name, ok) ==
  /\ phase = "running"
  /\ UNCHANGED <<phase, pending>>
  /\ IF IsBuiltinRelayGroup(name) THEN
        /\ ok
        /\ noSave
        /\ UNCHANGED CONFIG
        /\ out' = Result("remove-relay-group", name, <<>>, "", "denied",
                         "Cannot remove built-in relay group '" \o name
                           \o "'. You can update it instead.")
     ELSE IF name = "custom" \/ Truthy(CONFIG.relays, name) THEN
        /\ CONFIG' = [CONFIG EXCEPT !.relays = RemovedRelays(@, name)]
        /\ saveConfig(CONFIG', ok)
        /\ out' = Result("remove-relay-group", name, <<>>, "", "ok",
                         "Relay group '" \o name \o "' has been removed.")
     ELSE
        /\ ok
        /\ noSave
        /\ UNCHANGED CONFIG
        /\ out' = Result("remove-relay-group", name, <<>>, "", "not-found",
                         "Relay group '" \o name \o "' not found.")

\* `name.startsWith('hackerNews.')`
HackerNewsTypes ==
  {"newest", "frontpage", "bestComments", "ask", "show", "bogus", "constructor"}

StartsWithHackerNews(name) == \E type \in HackerNewsTypes : name = "hackerNews." \o type

\* fault: the feed is inserted before the probe is awaited
AddRssFeedCallInsertsFirst(name, url) ==
  /\ phase = "running"
  /\ BagCardinality(pending) < MaxTasks
  /\ pending' = pending (+) SetToBag({Task("add-rss-feed", name, url)})
  /\ CONFIG' = [CONFIG EXCEPT !.rssFeeds.custom = Put(@, name, url)]
  /\ UNCHANGED <<phase, configFile, writeFailures, fsLog, out>>

\* add-rss-feed up to `await rssParser.parseURL(url)`
AddRssFeedCall(name, url) ==
  /\ phase = "running"
  /\ BagCardinality(pending) < MaxTasks
  /\ pending' = pending (+) SetToBag({Task("add-rss-feed", name, url)})
  /\ UNCHANGED <<phase, CONFIG, configFile, writeFailures, fsLog, out>>

\* fault: the custom mapping is rebuilt with the new feed alone
AddRssFeedResumeOverwrites(task, probe, ok) ==
  /\ task.op = "add-rss-feed"
  /\ BagIn(task, pending)
  /\ pending' = pending (-) SetToBag({task})
  /\ UNCHANGED phase
  /\ LET name == task.name
         url == task.url
     IN
     IF probe = "ok" THEN
        /\ CONFIG' = [CONFIG EXCEPT !.rssFeeds.custom = <<[k |-> name, v |-> url]>>]
        /\ saveConfig(CONFIG', ok)
        /\ out' = Result("add-rss-feed", name, <<>>, url, "ok",
                         "RSS feed '" \o name \o "' has been added with URL: " \o url)
     ELSE
        /\ ok
        /\ noSave
        /\ UNCHANGED CONFIG
        /\ out' = Result("add-rss-feed", name, <<>>, url, "error",
                         handleToolError(probe, "Error adding RSS feed"))

\* add-rss-feed from the moment the probe settles: probe is "ok" or the
\* message of the error parseURL threw
AddRssFeedResume(task, probe, ok) ==
  /\ task.op = "add-rss-feed"
  /\ BagIn(task, pending)
  /\ pending' = pending (-) SetToBag({task})
  /\ UNCHANGED phase
  /\ LET name == task.name
         url == task.url
     IN
     IF probe = "ok" THEN
        /\ CONFIG' = [CONFIG EXCEPT !.rssFeeds.custom = Put(@, name, url)]
        /\ saveConfig(CONFIG', ok)
        /\ out' = Result("add-rss-feed", name, <<>>, url, "ok",
                         "RSS feed '" \o name \o "' has been added with URL: " \o url)
     ELSE
        /\ ok
        /\ noSave
        /\ UNCHANGED CONFIG
        /\ out' = Result("add-rss-feed", name, <<>>, url, "error",
                         handleToolError(probe, "Error adding RSS feed"))

\* fault: the feed is deleted now and saved in a later turn
RemoveRssFeedDefersSave(name, ok) ==
  /\ phase = "running"
  /\ UNCHANGED <<phase, pending>>
  /\ IF name = "stackerNews" \/ StartsWithHackerNews(name) THEN
        /\ ok
        /\ noSave
        /\ UNCHANGED CONFIG
        /\ out' = Result("remove-rss-feed", name, <<>>, "", "denied",
                         "Cannot remove built-in RSS feed '" \o name
                           \o "'. You can update it instead.")
     ELSE IF Truthy(CONFIG.rssFeeds.custom, name) THEN
        /\ CONFIG' = [CONFIG EXCEPT !.rssFeeds.custom = Delete(@, name)]
        /\ ok
        /\ noSave
        /\ out' = Result("remove-rss-feed", name, <<>>, "", "ok",
                         "RSS feed '" \o name \o "' has been removed.")
     ELSE
        /\ ok
        /\ noSave
        /\ UNCHANGED CONFIG
        /\ out' = Result("remove-rss-feed", name, <<>>, "", "not-found",
                         "RSS feed '" \o name \o "' not found.")

\* remove-rss-feed
RemoveRssFeed(name, ok) ==
  /\ phase = "running"
  /\ UNCHANGED <<phase, pending>>
  /\ IF name = "stackerNews" \/ StartsWithHackerNews(name) THEN
        /\ ok
        /\ noSave
        /\ UNCHANGED CONFIG
        /\ out' = Result("remove-rss-feed", name, <<>>, "", "denied",
                         "Cannot remove built-in RSS feed '" \o name
                           \o "'. You can update it instead.")
     ELSE IF Truthy(CONFIG.rssFeeds.custom, name) THEN
        /\ CONFIG' = [CONFIG EXCEPT !.rssFeeds.custom = Delete(@, name)]
        /\ saveConfig(CONFIG', ok)
        /\ out' = Result("remove-rss-feed", name, <<>>, "", "ok",
                         "RSS feed '" \o name \o "' has been removed.")
     ELSE
        /\ ok
        /\ noSave
        /\ UNCHANGED CONFIG
        /\ out' = Result("remove-rss-feed", name, <<>>, "", "not-found",
                         "RSS feed '" \o name \o "' not found.")

\* fault: the configuration shown is the one read back from the file
GetConfigFromFile ==
  /\ phase = "running"
  /\ noSave
  /\ out' = Result("get-config", "", <<>>, "", "ok", Join(configFile.text, " "))
  /\ UNCHANGED <<phase, CONFIG, pending>>

\* get-config
GetConfig ==
  /\ phase = "running"
  /\ noSave
  /\ out' = Result("get-config", "", <<>>, "", "ok", Join(JSON_stringify(CONFIG), " "))
  /\ UNCHANGED <<phase, CONFIG, pending>>

\* list-relay-groups
ListRelayGroups ==
  /\ phase = "running"
  /\ noSave
  /\ LET groups == [i \in DOMAIN CONFIG.relays |->
                      CONFIG.relays[i].k \o ": " \o Join(CONFIG.relays[i].v, ", ")]
     IN  out' = Result("list-relay-groups", "", <<>>, "", "ok", Join(groups, "\n\n"))
  /\ UNCHANGED <<phase, CONFIG, pending>>

\* fault: the listing saves the configuration
ListRssFeedsSaves ==
  /\ phase = "running"
  /\ saveConfig(CONFIG, TRUE)
  /\ out' = Result("list-rss-feeds", "", <<>>, "", "ok", "")
  /\ UNCHANGED <<phase, CONFIG, pending>>

\* list-rss-feeds
ListRssFeeds ==
  /\ phase = "running"
  /\ noSave
  /\ LET hackerNews == CONFIG.rssFeeds.hackerNews
         customFeeds == CONFIG.rssFeeds.custom
         feeds == <<"stackerNews: " \o CONFIG.rssFeeds.stackerNews>>
                    \o [i \in DOMAIN hackerNews |->
                          "hackerNews." \o hackerNews[i].k \o ": " \o hackerNews[i].v]
                    \o [i \in DOMAIN customFeeds |->
                          customFeeds[i].k \o ": " \o customFeeds[i].v]
     IN  out' = Result("list-rss-feeds", "", <<>>, "", "ok", Join(feeds, "\n\n"))
  /\ UNCHANGED <<phase, CONFIG, pending>>

----------------------------------------------------------------------------
(* The server: start-up, then any sequence of configuration tool calls *)

Init ==
  /\ phase = "start"
  /\ CONFIG = Unloaded
  /\ configFile \in ConfigFiles
  /\ writeFailures = 0
  /\ fsLog = "none"
  /\ pending = EmptyBag
  /\ out = Result("none", "", <<>>, "", "ok", "")

Next ==
  \/ \E example \in ExampleFiles, ok \in WriteOutcomes : loadConfig(example, ok)
  \/ \E in \in AddRelayGroupInputs, ok \in WriteOutcomes : AddRelayGroup(in[1], in[2], ok)
  \/ \E name \in GroupNames, ok \in WriteOutcomes : RemoveRelayGroup(name, ok)
  \/ \E in \in AddRssFeedInputs : AddRssFeedCall(in[1], in[2])
  \/ \E task \in BagToSet(pending), probe \in {"ok"} \cup ProbeErrors, ok \in WriteOutcomes :
        AddRssFeedResume(task, probe, ok)
  \/ \E name \in FeedNames \cup {"constructor"}, ok \in WriteOutcomes : RemoveRssFeed(name, ok)
  \/ GetConfig

Spec == Init /\ [][Next]_vars

----------------------------------------------------------------------------
(* Properties of the configuration tools *)

Running == phase = "running"

Groups == CONFIG.relays

Feeds == CONFIG.rssFeeds.custom

\* a step in which the handler of a configuration tool that does not await
\* runs from its call to its return
ReturnsFrom(op) == out'.op = op /\ pending' = pending /\ vars' # vars

\* C1: remove-relay-group with name 'trending' or 'news' is denied in every
\* state, changes neither CONFIG nor the configuration file, and writes nothing.
C1_RemoveBuiltinGroupDenied ==
  [][\A name \in {"trending", "news"} :
       (ReturnsFrom("remove-relay-group") /\ out'.name = name)
         => /\ out'.kind = "denied"
            /\ out'.text = "Cannot remove built-in relay group '" \o name
                             \o "'. You can update it instead."
            /\ CONFIG' = CONFIG
            /\ configFile' = configFile
            /\ fsLog' = "none"]_vars

C1_Witness ==
  /\ out.op = "remove-relay-group" /\ out.name = "news" /\ out.kind = "denied"
  /\ HasOwn(Groups, "mygroup")
  /\ GetOwn(Groups, "news") = <<"wss://news.utxo.one">>

C3_AddAppendsCustomReplacesOthers ==
  [][ReturnsFrom("add-relay-group")
       => /\ HasOwn(Groups', out'.name)
          /\ GetOwn(Groups', out'.name) =
               IF out'.name = "custom" THEN GetOwn(Groups, "custom") \o out'.relays
                                       ELSE out'.relays
          /\ \A g \in (Keys(Groups) \cup Keys(Groups')) \ {out'.name} :
               /\ HasOwn(Groups, g) /\ HasOwn(Groups', g)
               /\ GetOwn(Groups', g) = GetOwn(Groups, g)]_vars

C3_Witness ==
  /\ out.op = "add-relay-group" /\ out.name = "mygroup" /\ out.relays = <<>>
  /\ GetOwn(Groups, "mygroup") = <<>>
  /\ GetOwn(Groups, "custom") = <<"wss://r1", "wss://r2">>
  /\ GetOwn(Groups, "trending") = <<"wss://r1">>

\* C4: 'custom' is a key of CONFIG.relays in every state after start-up, and
\* remove-relay-group 'custom' always succeeds and leaves 'custom' empty.
C4_CustomClearedNotDeleted ==
  /\ [](Running => HasOwn(Groups, "custom"))
  /\ [][(ReturnsFrom("remove-relay-group") /\ out'.name = "custom")
          => /\ HasOwn(Groups', "custom")
             /\ GetOwn(Groups', "custom") = <<>>
             /\ out'.kind = "ok"
             /\ out'.text = "Relay group 'custom' has been removed."]_vars

C4_Witness ==
  /\ out.op = "remove-relay-group" /\ out.name = "custom" /\ out.kind = "ok"
  /\ GetOwn(Groups, "custom") = <<>>
  /\ HasOwn(Groups, "mygroup")

\* C5: a step of add-relay-group, add-rss-feed, remove-relay-group or
\* remove-rss-feed that changes CONFIG calls writeFileSync, and when the write
\* succeeds the file parses back to the whole of CONFIG as the handler returns.
C5_MutationPersistsSnapshot ==
  [][(Running /\ CONFIG' # CONFIG)
       => /\ fsLog' \in {"ok", "failed"}
          /\ fsLog' = "ok" =>
               /\ configFile'.exists
               /\ JSON_parse(configFile'.text).ok
               /\ JSON_parse(configFile'.text).v = CONFIG']_vars

C5_Witness ==
  /\ out.op = "add-rss-feed" /\ out.kind = "ok" /\ fsLog = "ok"
  /\ HasOwn(Feeds, out.name)
  /\ HasOwn(Groups, "mygroup")
  /\ JSON_parse(configFile.text).v = CONFIG

C14_FeedAddedOnlyAfterProbe ==
  [][/\ BagCardinality(pending') > BagCardinality(pending)
          => (CONFIG' = CONFIG /\ configFile' = configFile)
     /\ (out'.op = "add-rss-feed" /\ BagCardinality(pending') < BagCardinality(pending))
          => IF out'.kind = "error"
               THEN /\ CONFIG' = CONFIG
                    /\ configFile' = configFile
                    /\ fsLog' = "none"
                    /\ \E message \in ProbeErrors :
                          out'.text = "Error adding RSS feed: " \o message
               ELSE /\ Feeds' = Put(Feeds, out'.name, out'.url)
                    /\ CONFIG'.relays = CONFIG.relays
                    /\ fsLog' # "none"]_vars

C14_Witness ==
  /\ out.op = "add-rss-feed" /\ out.kind = "error" /\ out.name = "myfeed"
  /\ out.text = "Error adding RSS feed: Status code 404"
  /\ ~HasOwn(Feeds, "myfeed")
  /\ configFile = File(DEFAULT_CONFIG)
  /\ fsLog = "none"

\* C15: remove-rss-feed denies 'stackerNews' and every 'hackerNews.<type>'
\* and leaves CONFIG as it is; for another name that is not a custom feed it
\* reports not found and leaves CONFIG as it is; otherwise it deletes exactly
\* that custom feed and saves. It never changes the built-in feeds.
C15_RemoveFeedDeniedNotFoundOrDeleted ==
  [][ReturnsFrom("remove-rss-feed")
       => /\ IF out'.name = "stackerNews" \/ StartsWithHackerNews(out'.name)
               THEN out'.kind = "denied" /\ CONFIG' = CONFIG
             ELSE IF ~HasOwn(Feeds, out'.name)
               THEN out'.kind = "not-found" /\ CONFIG' = CONFIG
             ELSE /\ out'.kind = "ok"
                  /\ Feeds' = Delete(Feeds, out'.name)
                  /\ fsLog' # "none"
          /\ CONFIG'.rssFeeds.stackerNews = CONFIG.rssFeeds.stackerNews
          /\ CONFIG'.rssFeeds.hackerNews = CONFIG.rssFeeds.hackerNews]_vars

\* C16: remove-relay-group with a name other than 'trending', 'news' and
\* 'custom': when CONFIG.relays has no such group it reports not found, leaves
\* CONFIG as it is and writes nothing; when it has one, even with no relays,
\* it deletes exactly that group and saves.
C16_RemoveGroupNotFoundOrDeleted ==
  [][(ReturnsFrom("remove-relay-group") /\ out'.name \notin {"trending", "news", "custom"})
       => IF ~HasOwn(Groups, out'.name)
            THEN /\ out'.kind = "not-found"
                 /\ CONFIG' = CONFIG
                 /\ fsLog' = "none" /\ configFile' = configFile
            ELSE /\ out'.kind = "ok"
                 /\ CONFIG' = [CONFIG EXCEPT !.relays = Delete(@, out'.name)]
                 /\ fsLog' # "none"]_vars

\* C17: start-up takes the configuration file when it exists; otherwise the
\* example file when it exists, and writes it to the configuration path;
\* otherwise the hard-coded defaults, and writes them to the configuration path.
C17_StartupPriority ==
  [][\A example \in ExampleFiles, ok \in BOOLEAN :
       loadConfig(example, ok)
         => IF configFile.exists /\ configFile # Corrupt
              THEN /\ configFile = File(CONFIG')
                   /\ configFile' = configFile
                   /\ fsLog' = "none"
            ELSE IF ~configFile.exists /\ example = File(ExampleConfig)
              THEN /\ CONFIG' = ExampleConfig
                   /\ fsLog' # "none"
                   /\ fsLog' = "ok" => configFile' = File(ExampleConfig)
            ELSE IF ~configFile.exists /\ ~example.exists
              THEN /\ CONFIG'.relays =
                        << [k |-> "trending", v |-> <<"wss://algo.utxo.one">>],
                           [k |-> "news", v |-> <<"wss://news.utxo.one">>],
                           [k |-> "custom", v |-> <<>>] >>
                   /\ CONFIG'.rssFeeds.stackerNews = "https://stacker.news/rss"
                   /\ Keys(CONFIG'.rssFeeds.hackerNews) =
                        {"newest", "frontpage", "bestComments", "ask", "show"}
                   /\ CONFIG'.rssFeeds.custom = <<>>
                   /\ fsLog' # "none"
                   /\ fsLog' = "ok" => JSON_parse(configFile'.text).v = CONFIG'
            ELSE TRUE]_vars

C17_Witness ==
  /\ out.op = "loadConfig"
  /\ CONFIG = ExampleConfig
  /\ configFile = File(ExampleConfig)
  /\ fsLog = "ok"

\* C18: when the configuration file or the example file cannot be parsed at
\* start-up, CONFIG becomes the hard-coded defaults and the defaults are
\* written once to the configuration path; a corrupt configuration file is
\* not replaced by a valid example file; start-up completes also when that
\* write fails.
C18_LoadFailureFallsBackToDefaults ==
  [][\A example \in ExampleFiles, ok \in BOOLEAN :
       (/\ loadConfig(example, ok)
        /\ configFile = Corrupt \/ (~configFile.exists /\ example = Corrupt))
         => /\ CONFIG' = DEFAULT_CONFIG
            /\ phase' = "running"
            /\ fsLog' # "none"
            /\ writeFailures' <= writeFailures + 1
            /\ fsLog' = "ok" => configFile' = File(DEFAULT_CONFIG)
            /\ fsLog' = "failed" => configFile' = configFile]_vars

C18_Witness ==
  /\ out.op = "loadConfig"
  /\ phase = "running"
  /\ CONFIG = DEFAULT_CONFIG
  /\ configFile = Corrupt
  /\ fsLog = "failed"

\* C22: the change a tool makes to CONFIG and the write of CONFIG happen in
\* one step of its handler, also while other invocations are suspended: what
\* is written is CONFIG as the step leaves it, and as long as no write has
\* failed no invocation finds CONFIG and the file apart.
C22_MutationAndWriteAtomic ==
  /\ [][Running => /\ CONFIG' # CONFIG => fsLog' # "none"
                   /\ configFile' # configFile => configFile' = File(CONFIG')]_vars
  /\ []((Running /\ writeFailures = 0) => configFile = File(CONFIG))

C22_Witness ==
  /\ pending # EmptyBag
  /\ out.op = "remove-relay-group" /\ out.name = "mygroup" /\ out.kind = "ok"
  /\ fsLog = "ok"
  /\ writeFailures = 0
  /\ configFile = File(CONFIG)
  /\ HasOwn(Feeds, "myfeed") /\ ~HasOwn(Groups, "mygroup")

\* C28: when the probe of an add-rss-feed call settles, the feed goes into
\* CONFIG as the other invocations have left it meanwhile: every other custom
\* feed and every relay group is kept, and a successful write holds them all.
C28_ConcurrentAddsBothKept ==
  [][(/\ out'.op = "add-rss-feed" /\ out'.kind = "ok"
      /\ BagCardinality(pending') < BagCardinality(pending))
       => /\ \A i \in DOMAIN Feeds :
               /\ HasOwn(Feeds', Feeds[i].k)
               /\ Feeds[i].k # out'.name => GetOwn(Feeds', Feeds[i].k) = Feeds[i].v
          /\ GetOwn(Feeds', out'.name) = out'.url
          /\ CONFIG'.relays = CONFIG.relays
          /\ fsLog' = "ok" => JSON_parse(configFile'.text).v.rssFeeds.custom = Feeds']_vars

C28_Witness ==
  /\ out.op = "add-rss-feed" /\ out.kind = "ok" /\ out.name = "stackerNews"
  /\ pending = EmptyBag
  /\ Feeds = << [k |-> "myfeed", v |-> "https://f1/rss"],
                [k |-> "stackerNews", v |-> "https://f2/rss"] >>
  /\ fsLog = "ok"
  /\ JSON_parse(configFile.text).v.rssFeeds.custom = Feeds

\* C29: when the file and CONFIG are apart because a write has failed, the
\* next write that succeeds is of the whole of CONFIG: the file then parses
\* back to CONFIG, the changes whose own write failed included.
C29_NextWriteClosesGap ==
  [][(Running /\ writeFailures > 0 /\ configFile # File(CONFIG) /\ fsLog' = "ok")
       => /\ configFile' = File(CONFIG')
          /\ JSON_parse(configFile'.text).ok
          /\ JSON_parse(configFile'.text).v = CONFIG']_vars

C29_Witness ==
  /\ writeFailures = 1
  /\ fsLog = "ok"
  /\ out.op = "remove-relay-group" /\ out.name = "custom"
  /\ HasOwn(Feeds, "stackerNews") /\ HasOwn(Groups, "mygroup")
  /\ configFile = File(CONFIG)

----------------------------------------------------------------------------
(* Relay events and feed entries *)

MaxFetches == 1
MaxItems == 3

\* events the relays hold; created_at in unix seconds, two of them equal
Events ==
  { [id |-> "e1", pubkey |-> "79be667ef9dcbbac", created_at |-> 1, kind |-> 1, content |-> "one"],
    [id |-> "e2", pubkey |-> "", created_at |-> 2, kind |-> 0, content |-> "two"],
    [id |-> "e3", pubkey |-> "npub", created_at |-> 2, kind |-> 1, content |-> ""] }

\* entries of a feed document, as rss-parser returns them. A category is
\* written with its `typeof`: a string, an object with a '_' member
\* (underscore), another object (json is its JSON.stringify), a number (text
\* is its String). The date of D is not a date.
Entries ==
  { [title |-> "A", link |-> "https://a", pubDate |-> "Thu, 01 Jan 1970 00:00:02 GMT",
     creator |-> "ann", contentSnippet |-> "aa"],
    [title |-> "B", link |-> "https://b"],
    [title |-> "C", isoDate |-> "1970-01-01T00:00:05.000Z",
     categories |-> << [typeof |-> "string", text |-> "news"],
                       [typeof |-> "object", underscore |-> "tech"],
                       [typeof |-> "object", json |-> "{\"term\":\"x\"}"],
                       [typeof |-> "number", text |-> "7"] >>],
    [title |-> "D", link |-> "https://d", pubDate |-> "soon",
     categories |-> << [typeof |-> "object", underscore |-> "dan"] >>] }

\* sequences without repetition of at most n elements of S
ListsOf(S, n) ==
  {l \in UNION {[1..k -> S] : k \in 0..n} :
     \A i, j \in DOMAIN l : i < j => l[i] # l[j]}

EventLists == ListsOf(Events, MaxItems)

FeedDocuments == ListsOf(Entries, MaxItems)

QueryErrors == {"connection refused"}

\* the message of the TypeError a call on the inherited member throws
\* (`relays.join` in the catch block of fetchEvents)
NotAFunction == "relays.join is not a function"

Min(a, b) == IF a < b THEN a ELSE b

Max(a, b) == IF a < b THEN b ELSE a

----------------------------------------------------------------------------
(* Formatting *)

Pad2(n) == IF n < 10 THEN "0" \o ToString(n) ELSE ToString(n)

\* new Date(ms).toISOString(), for the first minute of the epoch
ToISOString(ms) == "1970-01-01T00:00:" \o Pad2(ms \div 1000) \o ".000Z"

\* new Date(string).getTime(), for the date strings of Entries
DateParse(str) ==
  CASE str = "Thu, 01 Jan 1970 00:00:02 GMT" -> 2000
    [] str = "1970-01-01T00:00:05.000Z" -> 5000

\* whether new Date(string) is a valid date; toISOString throws a RangeError
\* on an invalid one
IsValidDate(str) ==
  str \in {"Thu, 01 Jan 1970 00:00:02 GMT", "1970-01-01T00:00:05.000Z"}

\* typeof is `typeof timestamp`
formatDate(timestamp, typeof) ==
  IF typeof = "number" THEN ToISOString(timestamp * 1000)
                       ELSE ToISOString(DateParse(timestamp))

\* pubkey.substring(0, 8)
Substring0_8(str) == IF str = "79be667ef9dcbbac" THEN "79be667e" ELSE str

\* a FormattedItem; a field that is undefined is left out of the record
nostrEventToFormattedItem(event) ==
  [date |-> formatDate(event.created_at, "number"),
   author |-> IF event.pubkey # "" THEN Substring0_8(event.pubkey) \o "..." ELSE "",
   content |-> event.content,
   metadata |-> <<[k |-> "kind", v |-> ToString(event.kind)]>>]

Field(item, name) == IF name \in DOMAIN item THEN item[name] ELSE ""

getItemDate(item) ==
  IF Field(item, "pubDate") # "" THEN formatDate(item.pubDate, "string")
  ELSE IF Field(item, "isoDate") # "" THEN formatDate(item.isoDate, "string")
  ELSE "Unknown date"

\* whether getItemDate throws: the date it picks is not a valid date
getItemDateThrows(item) ==
  IF Field(item, "pubDate") # "" THEN ~IsValidDate(item.pubDate)
  ELSE IF Field(item, "isoDate") # "" THEN ~IsValidDate(item.isoDate)
  ELSE FALSE

\* what one category maps to in processCategories
CategoryText(cat) ==
  IF cat.typeof = "string" THEN cat.text
  ELSE IF cat.typeof = "object" /\ "underscore" \in DOMAIN cat THEN cat.underscore
  ELSE IF cat.typeof = "object" THEN cat.json
  ELSE cat.text

\* processCategories(item.categories); "" stands for undefined
processCategories(item) ==
  IF "categories" \notin DOMAIN item \/ item.categories = <<>> THEN ""
  ELSE Join([i \in DOMAIN item.categories |-> CategoryText(item.categories[i])], ", ")

getItemMetadata(item) ==
  IF processCategories(item) # ""
    THEN <<[k |-> "categories", v |-> processCategories(item)]>>
    ELSE <<>>

extractAuthor(item) ==
  IF Field(item, "creator") # "" THEN item.creator
  ELSE IF Field(item, "dcCreator") # "" THEN item.dcCreator
  ELSE IF Field(item, "dc:creator") # "" THEN item["dc:creator"]
  ELSE IF /\ "categories" \in DOMAIN item /\ item.categories # <<>>
          /\ item.categories[1].typeof = "object"
          /\ "underscore" \in DOMAIN item.categories[1]
    THEN item.categories[1].underscore
  ELSE "Unknown"

\* fault: the catch block keeps nothing of the item
rssItemToFormattedItemDropsItem(item) ==
  IF getItemDateThrows(item) THEN
    [date |-> "Unknown date", title |-> "Unknown title", author |-> "Unknown",
     content |-> "Error processing content", link |-> "", metadata |-> <<>>]
  ELSE
    [date |-> getItemDate(item),
     title |-> Field(item, "title"),
     author |-> extractAuthor(item),
     content |-> IF Field(item, "contentSnippet") # "" THEN item.contentSnippet
                                                       ELSE Field(item, "content"),
     link |-> Field(item, "link"),
     metadata |-> getItemMetadata(item)]

\* the record built in the try block, or the one of the catch block when
\* getItemDate throws (its metadata is undefined: no entries)
rssItemToFormattedItem(item) ==
  IF getItemDateThrows(item) THEN
    [date |-> "Unknown date",
     title |-> IF Field(item, "title") # "" THEN item.title ELSE "Unknown title",
     author |-> "Unknown",
     content |-> "Error processing content",
     link |-> Field(item, "link"),
     metadata |-> <<>>]
  ELSE
    [date |-> getItemDate(item),
     title |-> Field(item, "title"),
     author |-> extractAuthor(item),
     content |-> IF Field(item, "contentSnippet") # "" THEN item.contentSnippet
                                                       ELSE Field(item, "content"),
     link |-> Field(item, "link"),
     metadata |-> getItemMetadata(item)]

\* key.charAt(0).toUpperCase() + key.slice(1)
Capitalize(key) ==
  CASE key = "kind" -> "Kind"
    [] key = "categories" -> "Categories"

formatItem(item) ==
  LET title == Field(item, "title")
      link == Field(item, "link")
      parts ==
        <<"[" \o item.date \o "]" \o (IF title # "" THEN " " \o title ELSE "")>>
        \o (IF item.author # "" THEN <<"Author: " \o item.author>> ELSE <<>>)
        \o [i \in DOMAIN item.metadata |->
              Capitalize(item.metadata[i].k) \o ": " \o item.metadata[i].v]
        \o (IF item.content # "" THEN <<item.content>> ELSE <<>>)
        \o (IF link # "" THEN <<link>> ELSE <<>>)
  IN  Join(parts, "\n")

formatNostrEvent(event) == formatItem(nostrEventToFormattedItem(event))

formatRssItem(item) == formatItem(rssItemToFormattedItem(item))

----------------------------------------------------------------------------
(* Fetching *)

\* fault: the comparator is a.created_at - b.created_at
RECURSIVE InsertAscending(_, _)
InsertAscending(sorted, e) ==
  IF sorted = <<>> THEN <<e>>
  ELSE IF Head(sorted).created_at <= e.created_at
    THEN <<Head(sorted)>> \o InsertAscending(Tail(sorted), e)
    ELSE <<e>> \o sorted

\* e put into a list sorted by (a, b) => b.created_at - a.created_at, behind
\* the elements it does not precede (Array.prototype.sort is stable)
RECURSIVE Insert(_, _)
Insert(sorted, e) ==
  IF sorted = <<>> THEN <<e>>
  ELSE IF Head(sorted).created_at >= e.created_at
    THEN <<Head(sorted)>> \o Insert(Tail(sorted), e)
    ELSE <<e>> \o sorted

\* events.sort((a, b) => b.created_at - a.created_at)
RECURSIVE SortEvents(_)
SortEvents(events) ==
  IF events = <<>> THEN <<>>
  ELSE Insert(SortEvents(SubSeq(events, 1, Len(events) - 1)), events[Len(events)])

\* fault: slice(1, limit)
SliceFromOne(items, end) ==
  LET e == IF end < 0 THEN Max(Len(items) + end, 0) ELSE Min(end, Len(items))
  IN  SubSeq(items, 2, e)

\* items.slice(0, end)
Slice(items, end) ==
  LET e == IF end < 0 THEN Max(Len(items) + end, 0) ELSE Min(end, Len(items))
  IN  SubSeq(items, 1, e)

\* the limit a handler receives: the zod schema fills in the default
Limit(args) == IF "limit" \in DOMAIN args THEN args.limit ELSE DEFAULT_LIMIT

\* fault: only a limit of undefined gets the default (filter.limit ?? DEFAULT_LIMIT)
FilterLimitKeepsZero(limit) == limit

\* filter.limit || DEFAULT_LIMIT
FilterLimit(limit) == IF limit = 0 THEN DEFAULT_LIMIT ELSE limit

\* the filter of fetch-custom-events: kinds and authors when given, since and
\* until when given and not 0
CustomFilter(args) ==
  [f \in {"limit"} \cup ({"kinds", "authors"} \cap DOMAIN args)
           \cup {b \in {"since", "until"} \cap DOMAIN args : args[b] # 0}
     |-> IF f = "limit" THEN Limit(args) ELSE args[f]]

\* `obj[key]` of an object of arrays: an own value, or the member inherited
\* from Object.prototype
ValueOf(obj, key) == IF HasOwn(obj, key) THEN GetOwn(obj, key) ELSE <<"[native code]">>

\* `obj[key]` of an object of strings
UrlOf(obj, key) == IF HasOwn(obj, key) THEN GetOwn(obj, key) ELSE "[native code]"

Resolved(value) == [ok |-> TRUE, v |-> value, message |-> ""]

Rejected(message) == [ok |-> FALSE, v |-> <<>>, message |-> message]

\* fetchCustomRelayNotes: the relays of a named group
fetchCustomRelayNotes(relayName) ==
  IF relayName = "trending" THEN Resolved(GetOwn(CONFIG.relays, "trending"))
  ELSE IF relayName = "news" THEN Resolved(GetOwn(CONFIG.relays, "news"))
  ELSE IF Truthy(CONFIG.relays, relayName) THEN Resolved(ValueOf(CONFIG.relays, relayName))
  ELSE Rejected("Relay group '" \o relayName \o "' not found in configuration")

\* fetchHackerNews: the URL of a Hacker News feed type
fetchHackerNews(type) ==
  IF Truthy(CONFIG.rssFeeds.hackerNews, type)
    THEN Resolved(UrlOf(CONFIG.rssFeeds.hackerNews, type))
    ELSE Rejected("Hacker News feed type '" \o type \o "' not found in configuration")

\* feedName.split('.')[1]
HackerNewsType(feedName) ==
  CHOOSE type \in HackerNewsTypes : feedName = "hackerNews." \o type

\* fault: the custom mapping is looked up before the built-in names
fetchCustomRssFeedCustomFirst(feedName) ==
  IF HasOwn(CONFIG.rssFeeds.custom, feedName)
    THEN Resolved(GetOwn(CONFIG.rssFeeds.custom, feedName))
  ELSE IF feedName = "stackerNews" THEN Resolved(CONFIG.rssFeeds.stackerNews)
  ELSE IF StartsWithHackerNews(feedName) THEN fetchHackerNews(HackerNewsType(feedName))
  ELSE Rejected("RSS feed '" \o feedName \o "' not found in configuration")

\* fetchCustomRssFeed: the URL of a named feed
fetchCustomRssFeed(feedName) ==
  IF feedName = "stackerNews" THEN Resolved(CONFIG.rssFeeds.stackerNews)
  ELSE IF StartsWithHackerNews(feedName) THEN fetchHackerNews(HackerNewsType(feedName))
  ELSE IF Truthy(CONFIG.rssFeeds.custom, feedName)
    THEN Resolved(UrlOf(CONFIG.rssFeeds.custom, feedName))
  ELSE Rejected("RSS feed '" \o feedName \o "' not found in configuration")

RelayTools ==
  {"fetch-trending-notes", "fetch-news-notes", "fetch-relay-group", "fetch-custom-events"}

FeedTools == {"fetch-stacker-news", "fetch-hacker-news", "fetch-custom-rss"}

\* fault: no test of items.length, the text is the join of no items
notFoundMessageJoinsNothing(op) == ""

\* the not-found message and the error prefix each tool is registered with
notFoundMessage(op) ==
  CASE op = "fetch-trending-notes" -> "No trending notes found."
    [] op = "fetch-news-notes" -> "No news notes found."
    [] op = "fetch-custom-events" -> "No events found for the specified filter."
    [] op = "fetch-relay-group" -> "No events found for the specified relay group."
    [] op = "fetch-stacker-news" -> "No Stacker News items found."
    [] op = "fetch-hacker-news" -> "No Hacker News items found."
    [] op = "fetch-custom-rss" -> "No items found for the specified RSS feed."

errorPrefix(op) ==
  CASE op = "fetch-trending-notes" -> "Error fetching notes"
    [] op = "fetch-news-notes" -> "Error fetching notes"
    [] op = "fetch-custom-events" -> "Error fetching events"
    [] op = "fetch-relay-group" -> "Error fetching events from relay group"
    [] op = "fetch-stacker-news" -> "Error fetching RSS feed"
    [] op = "fetch-hacker-news" -> "Error fetching Hacker News RSS feed"
    [] op = "fetch-custom-rss" -> "Error fetching custom RSS feed"

\* fault: the two dedicated tools query fixed relay lists
ResolveHardCoded(args) ==
  CASE args.op = "fetch-trending-notes" -> Resolved(<<"wss://algo.utxo.one">>)
    [] args.op = "fetch-news-notes" -> Resolved(<<"wss://news.utxo.one">>)
    [] args.op = "fetch-relay-group" -> fetchCustomRelayNotes(args.relayGroup)
    [] args.op = "fetch-custom-events" -> Resolved(args.relays)
    [] args.op = "fetch-stacker-news" -> Resolved(CONFIG.rssFeeds.stackerNews)
    [] args.op = "fetch-hacker-news" ->
         fetchHackerNews(IF "type" \in DOMAIN args THEN args.type ELSE "newest")
    [] args.op = "fetch-custom-rss" -> fetchCustomRssFeed(args.feedName)

\* what the handler of a fetch tool resolves its arguments to, before it
\* calls a retrieval capability
Resolve(args) ==
  CASE args.op = "fetch-trending-notes" -> Resolved(GetOwn(CONFIG.relays, "trending"))
    [] args.op = "fetch-news-notes" -> Resolved(GetOwn(CONFIG.relays, "news"))
    [] args.op = "fetch-relay-group" -> fetchCustomRelayNotes(args.relayGroup)
    [] args.op = "fetch-custom-events" -> Resolved(args.relays)
    [] args.op = "fetch-stacker-news" -> Resolved(CONFIG.rssFeeds.stackerNews)
    [] args.op = "fetch-hacker-news" ->
         fetchHackerNews(IF "type" \in DOMAIN args THEN args.type ELSE "newest")
    [] args.op = "fetch-custom-rss" -> fetchCustomRssFeed(args.feedName)

\* the filter fetchEvents hands to pool.querySync
QueryFilter(args) ==
  LET filter == IF args.op = "fetch-custom-events" THEN CustomFilter(args)
                                                   ELSE [limit |-> Limit(args)]
  IN  [filter EXCEPT !.limit = FilterLimit(@)]

FetchResult(args, kind, received, rendered, text) ==
  [op |-> args.op, args |-> args, kind |-> kind, received |-> received,
   rendered |-> rendered, text |-> text]

\* the arguments the fetch tools are called with
FetchInputs ==
  { [op |-> "fetch-trending-notes"],
    [op |-> "fetch-trending-notes", limit |-> 0],
    [op |-> "fetch-trending-notes", limit |-> 2],
    [op |-> "fetch-news-notes", limit |-> 1],
    [op |-> "fetch-relay-group", relayGroup |-> "custom", limit |-> 1],
    [op |-> "fetch-relay-group", relayGroup |-> "mygroup"],
    [op |-> "fetch-relay-group", relayGroup |-> "nosuch", limit |-> 1],
    [op |-> "fetch-relay-group", relayGroup |-> "constructor", limit |-> 1],
    [op |-> "fetch-custom-events", relays |-> <<"wss://r1", "wss://r2">>, limit |-> 1],
    [op |-> "fetch-custom-events", relays |-> <<"wss://r1">>, limit |-> 1,
     kinds |-> <<1>>, authors |-> <<"npub">>, since |-> 1, until |-> 2],
    [op |-> "fetch-custom-events", relays |-> <<"wss://r1">>, limit |-> 1,
     since |-> 0, until |-> 0],
    [op |-> "fetch-stacker-news"],
    [op |-> "fetch-stacker-news", limit |-> 0],
    [op |-> "fetch-stacker-news", limit |-> 2],
    [op |-> "fetch-hacker-news", limit |-> 1],
    [op |-> "fetch-custom-rss", feedName |-> "myfeed", limit |-> 1],
    [op |-> "fetch-custom-rss", feedName |-> "nosuch"],
    [op |-> "fetch-custom-rss", feedName |-> "hackerNews.bogus", limit |-> 1],
    [op |-> "fetch-custom-rss", feedName |-> "hackerNews.constructor", limit |-> 1] }

\* a fetch tool from its call to its await: the arguments are resolved and the
\* retrieval capability is called, or the resolution throws and the handler
\* returns the error text
FetchCall(args) ==
  /\ phase = "running"
  /\ BagCardinality(pending) < MaxFetches
  /\ UNCHANGED <<phase, CONFIG, configFile, writeFailures, fsLog>>
  /\ LET r == Resolve(args)
     IN  IF r.ok THEN
             /\ pending' = pending (+) SetToBag({[op |-> args.op, args |-> args,
                   call |-> IF args.op \in RelayTools
                              THEN [relays |-> r.v, filter |-> QueryFilter(args)]
                              ELSE [url |-> r.v]]})
             /\ out' = out
         ELSE
             /\ pending' = pending
             /\ out' = FetchResult(args, "error", <<>>, <<>>,
                                   handleToolError(r.message, errorPrefix(args.op)))

\* what pool.querySync may resolve to: events no two of which are the same,
\* at most filter.limit from each relay
QueryReplies(call) ==
  {events \in EventLists :
     call.filter.limit > 0 => Len(events) <= Len(call.relays) * call.filter.limit}

\* whether the capability was handed the member inherited from
\* Object.prototype instead of relay URLs or a feed URL
CalledWithInherited(call) ==
  IF "relays" \in DOMAIN call THEN call.relays = <<"[native code]">>
                               ELSE call.url = "[native code]"

\* the messages of the errors the awaited fetch function may reject with
RejectionMessages(task) ==
  IF task.op \in RelayTools /\ CalledWithInherited(task.call)
    THEN {NotAFunction} ELSE QueryErrors

\* fault: after a failure the capability is called again, the call stays
\* outstanding
FetchResumeRetries(task, ok, reply, message) ==
  /\ task.op \in RelayTools \cup FeedTools
  /\ BagIn(task, pending)
  /\ pending' = IF ok THEN pending (-) SetToBag({task}) ELSE pending
  /\ UNCHANGED <<phase, CONFIG, configFile, writeFailures, fsLog>>
  /\ IF ~ok THEN
        /\ reply = <<>>
        /\ message \in RejectionMessages(task)
        /\ out' = FetchResult(task.args, "error", <<>>, <<>>,
                              handleToolError(message, errorPrefix(task.op)))
     ELSE
        /\ message = ""
        /\ ~CalledWithInherited(task.call)
        /\ reply \in (IF task.op \in RelayTools THEN QueryReplies(task.call) ELSE FeedDocuments)
        /\ LET items == IF task.op \in RelayTools THEN SortEvents(reply)
                                                  ELSE Slice(reply, Limit(task.args))
               rendered == [i \in DOMAIN items |->
                              IF task.op \in RelayTools THEN formatNostrEvent(items[i])
                                                        ELSE formatRssItem(items[i])]
           IN  IF Len(items) = 0
                 THEN out' = FetchResult(task.args, "empty", reply, <<>>,
                                         notFoundMessage(task.op))
                 ELSE out' = FetchResult(task.args, "ok", reply, rendered,
                                         Join(rendered, "\n\n"))

\* a fetch tool from the moment its capability settles to its return
FetchResume(task, ok, reply, message) ==
  /\ task.op \in RelayTools \cup FeedTools
  /\ BagIn(task, pending)
  /\ pending' = pending (-) SetToBag({task})
  /\ UNCHANGED <<phase, CONFIG, configFile, writeFailures, fsLog>>
  /\ IF ~ok THEN
        /\ reply = <<>>
        /\ message \in RejectionMessages(task)
        /\ out' = FetchResult(task.args, "error", <<>>, <<>>,
                              handleToolError(message, errorPrefix(task.op)))
     ELSE
        /\ message = ""
        /\ ~CalledWithInherited(task.call)
        /\ reply \in (IF task.op \in RelayTools THEN QueryReplies(task.call) ELSE FeedDocuments)
        /\ LET items == IF task.op \in RelayTools THEN SortEvents(reply)
                                                  ELSE Slice(reply, Limit(task.args))
               rendered == [i \in DOMAIN items |->
                              IF task.op \in RelayTools THEN formatNostrEvent(items[i])
                                                        ELSE formatRssItem(items[i])]
           IN  IF Len(items) = 0
                 THEN out' = FetchResult(task.args, "empty", reply, <<>>,
                                         notFoundMessage(task.op))
                 ELSE out' = FetchResult(task.args, "ok", reply, rendered,
                                         Join(rendered, "\n\n"))

\* a configuration edited with the configuration tools
EditedConfig ==
  [DEFAULT_CONFIG EXCEPT
     !.relays = << [k |-> "trending", v |-> <<"wss://r1">>],
                   [k |-> "news",     v |-> <<"wss://news.utxo.one">>],
                   [k |-> "custom",   v |-> <<"wss://r1", "wss://r2">>],
                   [k |-> "mygroup",  v |-> <<>>] >>,
     !.rssFeeds.custom = << [k |-> "myfeed", v |-> "https://f1/rss"],
                            [k |-> "stackerNews", v |-> "https://f2/rss"] >>]

FetchConfigs == {DEFAULT_CONFIG, SavedConfig, EditedConfig}

InitFetch ==
  /\ phase = "running"
  /\ CONFIG \in FetchConfigs
  /\ configFile = File(CONFIG)
  /\ writeFailures = 0
  /\ fsLog = "none"
  /\ pending = EmptyBag
  /\ out = Result("none", "", <<>>, "", "ok", "")

NextFetch ==
  \/ \E args \in FetchInputs : FetchCall(args)
  \/ \E task \in BagToSet(pending), reply \in EventLists \cup FeedDocuments :
       FetchResume(task, TRUE, reply, "")
  \/ \E task \in BagToSet(pending), message \in QueryErrors \cup {NotAFunction} :
       FetchResume(task, FALSE, <<>>, message)
  \/ GetConfig
  \/ ListRelayGroups
  \/ ListRssFeeds

SpecFetch == InitFetch /\ [][NextFetch]_vars

----------------------------------------------------------------------------
(* Properties of the fetch tools *)

\* C7: a relay fetch that returns events renders exactly the events
\* pool.querySync returned, one text each, in non-increasing created_at order.
C7_RelayEventsNewestFirst ==
  (out.op \in RelayTools /\ out.kind = "ok")
    => /\ Len(out.rendered) = Len(out.received)
       /\ \E p \in Permutations(DOMAIN out.received) :
             /\ \A i \in DOMAIN out.rendered :
                  out.rendered[i] = formatNostrEvent(out.received[p[i]])
             /\ \A i, j \in DOMAIN out.rendered :
                  i < j => out.received[p[i]].created_at >= out.received[p[j]].created_at
       /\ out.text = Join(out.rendered, "\n\n")

C7_Witness ==
  /\ out.op = "fetch-trending-notes" /\ out.kind = "ok"
  /\ Len(out.received) = 3
  /\ out.received[1].created_at = 1
  /\ out.received[2].created_at = 2
  /\ out.rendered[3] = formatNostrEvent(out.received[1])

\* C8: a feed fetch with limit L >= 0 on a document of N entries renders the
\* first min(N, L) entries of the document, in the document's order.
C8_FeedFirstEntriesInOrder ==
  (out.op \in FeedTools /\ out.kind \in {"ok", "empty"} /\ Limit(out.args) >= 0)
    => LET n == Min(Len(out.received), Limit(out.args))
       IN  /\ Len(out.rendered) = n
           /\ \A i \in 1..n : out.rendered[i] = formatRssItem(out.received[i])

C8_Witness ==
  /\ out.op = "fetch-stacker-news" /\ out.kind = "ok"
  /\ Limit(out.args) = 2
  /\ Len(out.received) = 3
  /\ out.received[1].title = "A" /\ out.received[2].title = "C"
  /\ Len(out.rendered) = 2
  /\ out.rendered[2] = formatRssItem(out.received[2])

\* the limit in force for a call: a relay fetch replaces an absent or zero
\* limit by 10, a feed fetch an absent one
EffectiveLimit(args) ==
  IF "limit" \notin DOMAIN args THEN 10
  ELSE IF args.op \in RelayTools /\ args.limit = 0 THEN 10
  ELSE args.limit

\* C9: no fetch, relay or feed, returns more items than its effective limit.
C9_NeverMoreThanLimit ==
  (out.op \in RelayTools \cup FeedTools /\ out.kind = "ok")
    => Len(out.rendered) <= EffectiveLimit(out.args)

\* C10: pool.querySync is called with limit 10 when the tool's limit is absent
\* or 0, and with the tool's limit otherwise.
C10_QueryLimitDefault ==
  \A task \in BagToSet(pending) :
    task.op \in RelayTools
      => task.call.filter.limit =
           IF "limit" \notin DOMAIN task.args \/ task.args.limit = 0
             THEN 10 ELSE task.args.limit

C10_Witness ==
  \E task \in BagToSet(pending) :
    /\ task.op = "fetch-trending-notes"
    /\ "limit" \in DOMAIN task.args /\ task.args.limit = 0
    /\ task.call.filter.limit = 10

\* the messages of the failures a fetch can meet: resolution (not found) and
\* the retrieval capability
FailureMessages(args) ==
  QueryErrors \cup {NotAFunction}
    \cup (IF args.op = "fetch-relay-group"
            THEN {"Relay group '" \o args.relayGroup \o "' not found in configuration"}
          ELSE IF args.op = "fetch-custom-rss"
            THEN {"RSS feed '" \o args.feedName \o "' not found in configuration"}
                   \cup {"Hacker News feed type '" \o type \o "' not found in configuration" :
                           type \in HackerNewsTypes}
          ELSE {})

\* C11: whatever fails in a fetch tool (resolving the name, the retrieval
\* capability, a call on what the name resolved to), the handler returns the
\* text '<error prefix of the tool>: <message of the failure>'.
C11_FailureGivesPrefixedText ==
  (out.op \in RelayTools \cup FeedTools /\ out.kind = "error")
    => \E message \in FailureMessages(out.args) :
         out.text = errorPrefix(out.op) \o ": " \o message

C11_Witness ==
  /\ out.op = "fetch-custom-rss" /\ out.kind = "error"
  /\ out.args.feedName = "myfeed"
  /\ out.text = "Error fetching custom RSS feed: connection refused"

\* C12: fetch-relay-group with a name other than 'trending' and 'news' that
\* is not a group of CONFIG.relays never calls pool.querySync and returns
\* "Error fetching events from relay group: Relay group '<name>' not found in
\* configuration".
C12_AbsentGroupNotFound ==
  /\ \A task \in BagToSet(pending) :
        task.op = "fetch-relay-group" => HasOwn(CONFIG.relays, task.args.relayGroup)
  /\ (out.op = "fetch-relay-group" /\ ~HasOwn(CONFIG.relays, out.args.relayGroup))
       => out.text = "Error fetching events from relay group: Relay group '"
                       \o out.args.relayGroup \o "' not found in configuration"

\* C13: a Hacker News fetch whose type is not a key of
\* CONFIG.rssFeeds.hackerNews never calls rssParser.parseURL and returns a
\* not-found error, never a list of items or the 'no items found' message.
C13_AbsentHackerNewsTypeNotFound ==
  /\ \A task \in BagToSet(pending) :
        (task.op = "fetch-custom-rss" /\ StartsWithHackerNews(task.args.feedName))
          => HasOwn(CONFIG.rssFeeds.hackerNews, HackerNewsType(task.args.feedName))
  /\ (/\ out.op = "fetch-custom-rss"
      /\ StartsWithHackerNews(out.args.feedName)
      /\ ~HasOwn(CONFIG.rssFeeds.hackerNews, HackerNewsType(out.args.feedName)))
       => /\ out.kind = "error"
          /\ out.text = "Error fetching custom RSS feed: Hacker News feed type '"
                          \o HackerNewsType(out.args.feedName)
                          \o "' not found in configuration"

\* the texts a fetch tool can return for a failure
ErrorTexts(args) ==
  {errorPrefix(args.op) \o ": " \o message : message \in FailureMessages(args)}

NothingFoundTexts ==
  {"No trending notes found.", "No news notes found.",
   "No events found for the specified filter.",
   "No events found for the specified relay group.",
   "No Stacker News items found.", "No Hacker News items found.",
   "No items found for the specified RSS feed."}

\* C20: a fetch whose retrieval succeeds with no item returns the tool's own
\* 'nothing found' message, which is neither empty nor an error text; a fetch
\* whose retrieval fails returns an error text, never a 'nothing found' message.
C20_EmptyIsNotFailure ==
  out.op \in RelayTools \cup FeedTools
    => /\ (out.kind # "error" /\ out.rendered = <<>>)
            => /\ out.kind = "empty"
               /\ out.text = notFoundMessage(out.op)
               /\ out.text \in NothingFoundTexts
               /\ out.text # ""
               /\ out.text \notin ErrorTexts(out.args)
       /\ out.kind = "error"
            => /\ out.text \in ErrorTexts(out.args)
               /\ out.text \notin NothingFoundTexts
       /\ out.kind = "ok" => (out.rendered # <<>> /\ out.text \notin NothingFoundTexts)

C20_Witness ==
  /\ out.op = "fetch-stacker-news" /\ out.kind = "empty"
  /\ out.received = <<>>
  /\ out.text = "No Stacker News items found."

\* the text each entry of Entries is to be rendered as
ExpectedText(title) ==
  CASE title = "A" -> "[1970-01-01T00:00:02.000Z] A\nAuthor: ann\naa\nhttps://a"
    [] title = "B" -> "[Unknown date] B\nAuthor: Unknown\nhttps://b"
    [] title = "C" -> "[1970-01-01T00:00:05.000Z] C\nAuthor: Unknown\n"
                        \o "Categories: news, tech, {\"term\":\"x\"}, 7"
    [] title = "D" -> "[Unknown date] D\nAuthor: Unknown\nError processing content\nhttps://d"

\* C25: no feed entry makes a feed fetch fail: an entry whose date is not a
\* date is rendered from the placeholder record, categories that are not
\* strings are rendered by their fallbacks, and every other entry of the batch
\* is rendered as usual.
C25_MalformedEntryRendered ==
  out.op \in FeedTools
    => /\ out.kind = "error" => out.received = <<>>
       /\ out.kind = "ok"
            => /\ Len(out.rendered) = Min(Len(out.received), Limit(out.args))
               /\ \A i \in DOMAIN out.rendered :
                     out.rendered[i] = ExpectedText(out.received[i].title)

C25_Witness ==
  /\ out.op = "fetch-stacker-news" /\ out.kind = "ok"
  /\ Len(out.received) = 3 /\ Len(out.rendered) = 3
  /\ out.received[1].title = "D" /\ out.received[2].title = "C"
  /\ out.rendered[1] = "[Unknown date] D\nAuthor: Unknown\nError processing content\nhttps://d"
  /\ out.rendered[3] = formatRssItem(out.received[3])

\* C21: an invocation of a fetch tool has at most one capability call
\* outstanding, made in one step; once that call fails, the invocation
\* returns the error text and the call is gone: nothing is tried again.
C21_NoRetry ==
  [][/\ BagCardinality(pending') <= BagCardinality(pending) + 1
     /\ (/\ out'.op \in RelayTools \cup FeedTools
         /\ out'.kind = "error"
         /\ out' # out \/ BagCardinality(pending') < BagCardinality(pending))
          => \/ pending' = pending /\ ~Resolve(out'.args).ok
             \/ \E task \in BagToSet(pending) :
                   /\ task.args = out'.args
                   /\ pending' = pending (-) SetToBag({task})]_vars

C21_Witness ==
  /\ out.op = "fetch-news-notes" /\ out.kind = "error"
  /\ out.text = "Error fetching notes: connection refused"
  /\ pending = EmptyBag

ReadTools == {"get-config", "list-relay-groups", "list-rss-feeds"}

\* C23: no fetch tool and no read tool changes CONFIG or writes the
\* configuration file, whether it returns items, nothing or an error.
C23_FetchAndReadLeaveRegistry ==
  [][(out'.op \in RelayTools \cup FeedTools \cup ReadTools \/ pending' # pending)
       => /\ CONFIG' = CONFIG
          /\ configFile' = configFile
          /\ writeFailures' = writeFailures
          /\ fsLog' = "none"]_vars

C23_Witness ==
  /\ out.op = "fetch-relay-group" /\ out.kind = "error"
  /\ out.args.relayGroup = "nosuch"
  /\ CONFIG = EditedConfig
  /\ configFile = File(EditedConfig)
  /\ fsLog = "none"

\* C30: fetch-custom-events hands pool.querySync a filter that has exactly the
\* optional fields (kinds, authors, since, until) the call supplied, each
\* with the value supplied, 0 included.
C30_OptionalFilterFieldsForwarded ==
  \A task \in BagToSet(pending) :
    task.op = "fetch-custom-events"
      => \A f \in {"kinds", "authors", "since", "until"} :
           /\ f \in DOMAIN task.args <=> f \in DOMAIN task.call.filter
           /\ f \in DOMAIN task.args => task.call.filter[f] = task.args[f]

----------------------------------------------------------------------------
(* Loading and saving documents a user wrote *)

MaxExtraEntries == 2

\* members a user added to "relays" after the three default groups; a name
\* may be written twice
ExtraGroups ==
  { [k |-> "trending", v |-> <<"wss://r1">>],
    [k |-> "custom",   v |-> <<"wss://r1", "wss://r2">>],
    [k |-> "mygroup",  v |-> <<>>],
    [k |-> "mygroup",  v |-> <<"wss://r2">>] }

\* members a user wrote in "rssFeeds.custom"
ExtraFeeds ==
  { [k |-> "myfeed", v |-> "https://f1/rss"],
    [k |-> "myfeed", v |-> "https://f2/rss"],
    [k |-> "stackerNews", v |-> "https://f2/rss"] }

\* the text of a document with the given members, in the order written
UserDocuments ==
  { JSON_stringify([DEFAULT_CONFIG EXCEPT !.relays = @ \o groups,
                                          !.rssFeeds.custom = feeds]) :
      groups \in ListsOf(ExtraGroups, MaxExtraEntries),
      feeds \in ListsOf(ExtraFeeds, MaxExtraEntries) }

\* the process ends and the module is loaded again; the file stays
Restart ==
  /\ phase = "running"
  /\ pending = EmptyBag
  /\ phase' = "start"
  /\ CONFIG' = Unloaded
  /\ out' = Result("none", "", <<>>, "", "ok", "")
  /\ fsLog' = "none"
  /\ UNCHANGED <<configFile, writeFailures, pending>>

InitPersist ==
  /\ phase = "start"
  /\ CONFIG = Unloaded
  /\ configFile \in {[exists |-> TRUE, text |-> text] : text \in UserDocuments}
  /\ writeFailures = 0
  /\ fsLog = "none"
  /\ pending = EmptyBag
  /\ out = Result("none", "", <<>>, "", "ok", "")

\* start-up, then saves of the registry as loaded (add-relay-group 'custom'
\* with no relay leaves CONFIG as it is and saves it), then the next start-up
NextPersist ==
  \/ \E example \in ExampleFiles, ok \in WriteOutcomes : loadConfig(example, ok)
  \/ \E ok \in WriteOutcomes : AddRelayGroup("custom", <<>>, ok)
  \/ Restart

SpecPersist == InitPersist /\ [][NextPersist]_vars

\* C19: saving the registry loaded from a document writes a document that
\* loads to the same registry, and loading and saving that document again
\* writes the identical document.
C19_LoadThenSaveIdempotent ==
  [][(ReturnsFrom("add-relay-group") /\ CONFIG' = CONFIG /\ fsLog' = "ok")
       => LET first == configFile'.text
              loaded == JSON_parse(first)
              second == JSON_stringify(loaded.v)
          IN  /\ loaded.ok
              /\ loaded.v = CONFIG
              /\ second = first
              /\ JSON_parse(configFile.text).ok
                   => JSON_parse(configFile.text).v = loaded.v]_vars

C19_Witness ==
  /\ out.op = "add-relay-group" /\ fsLog = "ok"
  /\ Len(Groups) = 4 /\ Len(Feeds) = 1
  /\ HasOwn(Groups, "mygroup") /\ HasOwn(Feeds, "myfeed")
  /\ GetOwn(Groups, "trending") = <<"wss://r1">>
  /\ GetOwn(Groups, "mygroup") = <<"wss://r2">>
  /\ GetOwn(Feeds, "myfeed") = "https://f2/rss"
  /\ configFile.text = JSON_stringify(CONFIG)

----------------------------------------------------------------------------
(* Editing the configuration while fetches are in flight *)

\* the (name, relays) arguments add-relay-group is called with
EditRelayInputs == {<<"trending", <<"wss://r1">> >>, <<"news", <<"wss://r2">> >>}

\* the (name, url) arguments add-rss-feed is called with: built-in names
EditFeedInputs ==
  {<<"stackerNews", "https://f2/rss">>, <<"hackerNews.ask", "https://f1/rss">>}

EditFetchInputs ==
  { [op |-> "fetch-trending-notes", limit |-> 1],
    [op |-> "fetch-news-notes", limit |-> 1],
    [op |-> "fetch-custom-rss", feedName |-> "stackerNews", limit |-> 1],
    [op |-> "fetch-custom-rss", feedName |-> "hackerNews.ask", limit |-> 1] }

\* what a capability resolves to here: nothing or one item
EditReplies == {l \in EventLists \cup FeedDocuments : Len(l) <= 1}

InitEdit ==
  /\ phase = "running"
  /\ CONFIG = DEFAULT_CONFIG
  /\ configFile = File(DEFAULT_CONFIG)
  /\ writeFailures = 0
  /\ fsLog = "none"
  /\ pending = EmptyBag
  /\ out = Result("none", "", <<>>, "", "ok", "")

NextEdit ==
  \/ \E in \in EditRelayInputs, ok \in WriteOutcomes : AddRelayGroup(in[1], in[2], ok)
  \/ \E in \in EditFeedInputs : AddRssFeedCall(in[1], in[2])
  \/ \E task \in BagToSet(pending), probe \in {"ok"} \cup ProbeErrors, ok \in WriteOutcomes :
        AddRssFeedResume(task, probe, ok)
  \/ \E in \in EditFeedInputs, ok \in WriteOutcomes : RemoveRssFeed(in[1], ok)
  \/ \E args \in EditFetchInputs : FetchCall(args)
  \/ \E task \in BagToSet(pending), reply \in EditReplies : FetchResume(task, TRUE, reply, "")
  \/ \E task \in BagToSet(pending), message \in QueryErrors :
        FetchResume(task, FALSE, <<>>, message)

SpecEdit == InitEdit /\ [][NextEdit]_vars

\* the tasks a step adds to pending
Called == BagToSet(pending') \ BagToSet(pending)

C26_HungCallBlocksOnlyItself ==
  /\ [](\A hung \in BagToSet(pending) :
          /\ ENABLED AddRelayGroup("trending", <<"wss://r1">>, TRUE)
          /\ ENABLED RemoveRssFeed("stackerNews", TRUE)
          /\ \A other \in BagToSet(pending (-) SetToBag({hung})) :
                IF other.op = "add-rss-feed"
                  THEN /\ ENABLED AddRssFeedResume(other, "ok", TRUE)
                       /\ ENABLED AddRssFeedResume(other, "Status code 404", TRUE)
                  ELSE /\ ENABLED FetchResume(other, TRUE, <<>>, "")
                       /\ ENABLED FetchResume(other, FALSE, <<>>, "connection refused"))
  /\ [][\A hung \in BagToSet(pending) :
          CopiesIn(hung, pending') < CopiesIn(hung, pending)
            => /\ out'.op = hung.op
               /\ pending' = pending (-) SetToBag({hung})
               /\ IF hung.op = "add-rss-feed"
                    THEN out'.name = hung.name /\ out'.url = hung.url
                    ELSE out'.args = hung.args]_vars

C26_Witness ==
  /\ out.op = "add-rss-feed" /\ out.kind = "ok" /\ out.name = "stackerNews"
  /\ HasOwn(Feeds, "stackerNews")
  /\ \E hung \in BagToSet(pending) : hung.op = "fetch-trending-notes"
  /\ BagCardinality(pending) = 1

\* the names add-rss-feed accepts although the built-in feeds own them
ShadowedNames == {"stackerNews", "hackerNews.ask"}

\* C27: add-rss-feed stores a feed named 'stackerNews' or 'hackerNews.<type>'
\* in the custom mapping and saves it; fetch-custom-rss with that name still
\* retrieves the built-in feed, remove-rss-feed with that name is denied, and
\* the entry, once stored, stays in the custom mapping.
C27_ShadowedFeedStoredUnreachable ==
  [][/\ (/\ out'.op = "add-rss-feed" /\ out'.kind = "ok" /\ out'.name \in ShadowedNames
         /\ BagCardinality(pending') < BagCardinality(pending))
          => /\ GetOwn(Feeds', out'.name) = out'.url
             /\ fsLog' # "none"
             /\ fsLog' = "ok" => GetOwn(JSON_parse(configFile'.text).v.rssFeeds.custom,
                                         out'.name) = out'.url
     /\ \A task \in Called :
          task.op = "fetch-custom-rss"
            => task.call.url = IF task.args.feedName = "stackerNews"
                                 THEN "https://stacker.news/rss"
                                 ELSE "https://hnrss.org/ask"
     /\ (ReturnsFrom("remove-rss-feed") /\ out'.name \in ShadowedNames)
          => out'.kind = "denied"
     /\ \A name \in ShadowedNames : HasOwn(Feeds, name) => HasOwn(Feeds', name)]_vars

C27_Witness ==
  /\ out.op = "remove-rss-feed" /\ out.kind = "denied" /\ out.name = "stackerNews"
  /\ HasOwn(Feeds, "stackerNews")
  /\ GetOwn(Feeds, "stackerNews") = "https://f2/rss"
  /\ \E task \in BagToSet(pending) :
        /\ task.op = "fetch-custom-rss" /\ task.args.feedName = "stackerNews"
        /\ task.call.url = "https://stacker.news/rss"

====
